---- MODULE Spec2Model ----
(***************************************************************************)
(* Model of cmd/migrate/main.go of fly-apps/postgres-importer: the          *)
(* one-shot migration orchestrator (configuration resolution, pre-flight    *)
(* checks, dump/restore pipeline) with its logging and exit codes.          *)
(*                                                                          *)
(* Strings the program only concatenates or compares for emptiness          *)
(* (locators, command lines) are sequences of tokens, concatenated with \o; *)
(* the empty string is <<>>.  Server version strings, which the program     *)
(* splits and compares byte-wise, are sequences of ASCII codes.             *)
(***************************************************************************)
EXTENDS Integers, Sequences, FiniteSets, TLC

VARIABLES
    env,            \* process environment read by os.Getenv
    flags,          \* command line flags after flag.Parse
    pc,             \* position of the single goroutine
    sourceURI,      \* main: sourceURI
    targetURI,      \* main: targetURI
    opts,           \* main: opts (migrationOpts)
    open,           \* connections currently open
    opened,         \* connections ever opened (history)
    deferred,       \* runPreChecks: stack of deferred Close calls
    attempts,       \* locators passed to pgx.ConnectConfig, per endpoint (history)
    queries,        \* "SHOW server_version" queries per endpoint (history)
    sourceVersion,  \* runPreChecks: sourceVersion
    targetVersion,  \* runPreChecks: targetVersion
    err,            \* the error raised in this run, "none" if none
    dumpStr,        \* runMigration: dumpStr
    cmd,            \* runMigration: cmd
    stages,         \* exit status of pg_dump and psql once the pipeline ran
    pipelineStarts, \* number of runCommand calls (history)
    log,            \* levels of the lines written through package log
    phases,         \* phases begun so far (history)
    exitCode        \* <<code>> once the process has exited, <<>> while it runs

vars == <<env, flags, pc, sourceURI, targetURI, opts, open, opened, deferred,
          attempts, queries, sourceVersion, targetVersion, err, dumpStr, cmd,
          stages, pipelineStarts, log, phases, exitCode>>

-----------------------------------------------------------------------------
(* Strings *)

Empty == <<>>

\* a %s operand of fmt.Sprintf: the empty string contributes nothing
Str(s) == IF s = "" THEN <<>> ELSE <<s>>

Dot == 46

\* ASCII codes of '1' '4' '5' '9'
MajorDigits == {49, 52, 53, 57}

\* length of the major part of the generated version strings
MaxMajorLen == 2

RECURSIVE DigitStrings(_)
DigitStrings(n) ==
    IF n = 0 THEN {<<>>}
    ELSE LET shorter == DigitStrings(n - 1)
         IN  shorter \cup
             {<<d>> \o s : d \in MajorDigits,
                           s \in {t \in shorter : Len(t) = n - 1}}

\* "", ".2", ".0", ".9", ".2.1"
VersionSuffixes ==
    { <<>>, <<Dot, 50>>, <<Dot, 48>>, <<Dot, 57>>, <<Dot, 50, Dot, 49>> }

\* version strings a server may report, for the version comparison
Versions == {m \o s : m \in DigitStrings(MaxMajorLen), s \in VersionSuffixes}

\* "9.2", "15.0", "14.2", "14.9"
V9_2  == <<57, Dot, 50>>
V15_0 == <<49, 53, Dot, 48>>
V14_2 == <<49, 52, Dot, 50>>
V14_9 == <<49, 52, Dot, 57>>

\* version strings the servers report in complete runs
ServerVersions == {V9_2, V15_0, V14_2, V14_9}

\* strings.Split(s, sep) for a one-byte separator
RECURSIVE SplitFrom(_, _, _, _)
SplitFrom(s, sep, i, cur) ==
    IF i > Len(s) THEN <<cur>>
    ELSE IF s[i] = sep THEN <<cur>> \o SplitFrom(s, sep, i + 1, <<>>)
    ELSE SplitFrom(s, sep, i + 1, Append(cur, s[i]))

Split(s, sep) == SplitFrom(s, sep, 1, <<>>)

\* Go's string operator >: byte-wise, a proper prefix is the smaller string
RECURSIVE StrGreaterLoose(_, _)
StrGreaterLoose(a, b) ==
    IF a = <<>> THEN b = <<>>
    ELSE IF b = <<>> THEN TRUE
    ELSE IF Head(a) # Head(b) THEN Head(a) > Head(b)
    ELSE StrGreaterLoose(Tail(a), Tail(b))

RECURSIVE StrGreater(_, _)
StrGreater(a, b) ==
    IF a = <<>> THEN FALSE
    ELSE IF b = <<>> THEN TRUE
    ELSE IF Head(a) # Head(b) THEN Head(a) > Head(b)
    ELSE StrGreater(Tail(a), Tail(b))

-----------------------------------------------------------------------------
(* Locators and the environment *)

SourceWithDb == <<"postgres://", "u:p@h1:5432", "/", "db">>
SourceNoDb   == <<"postgres://", "u:p@h1:5432">>
TargetWithDb == <<"postgres://", "u:p@h2:5432", "/", "db">>
SourceSlash  == <<"postgres://", "u:p@h1:5432", "/">>
Malformed    == <<"::bad">>

SourceValues   == {Empty, SourceWithDb, SourceNoDb, SourceSlash, Malformed}
TargetValues   == {Empty, TargetWithDb, Malformed}
AppNames       == {"", "myapp"}
Passwords      == {"", "secret"}

Getenv(name) == env[name]

\* pgx.ParseConfig as the program uses it: whether the locator parses, and
\* the Database of the resulting configuration
ParseConfig(uri) ==
    IF uri # Empty /\ uri[1] # "postgres://"
    THEN [ok |-> FALSE, Database |-> ""]
    ELSE [ok |-> TRUE,
          Database |-> IF \E i \in 1..(Len(uri) - 1) : uri[i] = "/"
                       THEN uri[(CHOOSE i \in 1..(Len(uri) - 1) : uri[i] = "/") + 1]
                       ELSE ""]

NotExited == <<>>

NoErr == "none"

\* log.Printf / log.Println at the given level
Logged(l, level) == Append(l, level)

\* os.Exit(code), and main returning (code 0)
Exit(code) ==
    /\ exitCode' = <<code>>
    /\ pc' = "exited"

-----------------------------------------------------------------------------
(* Configuration resolution, main lines 37-73 *)

MissingSourceNever(uri) == FALSE

\* sourceURI == ""
MissingSource(uri) == uri = Empty

\* appName != "" with operatorPass == ""
MissingPassword(appName, operatorPass) == appName # "" /\ operatorPass = ""

\* fmt.Sprintf("postgres://postgres:%s@%s.internal:5432", operatorPass, appName)
DerivedTargetURI(operatorPass, appName) ==
    <<"postgres://", "postgres:">> \o Str(operatorPass) \o <<"@">>
        \o Str(appName) \o <<".internal:5432">>

TargetAfterGetenvKeepDerived(derived, explicit) ==
    IF derived # Empty THEN derived ELSE explicit

\* targetURI = os.Getenv("TARGET_DATABASE_URI"), whatever targetURI held
TargetAfterGetenv(derived, explicit) == explicit

\* targetURI == ""
MissingTarget(uri) == uri = Empty

Init ==
    /\ env \in [SOURCE_DATABASE_URI : SourceValues,
                OPERATOR_PASSWORD   : Passwords,
                FLY_APP_NAME        : AppNames,
                TARGET_DATABASE_URI : TargetValues]
    /\ flags \in [noOwner : BOOLEAN, clean : BOOLEAN,
                  create : BOOLEAN, dataOnly : BOOLEAN]
    /\ pc = "resolve_source"
    /\ sourceURI = Empty
    /\ targetURI = Empty
    /\ opts = [sourceURI |-> Empty, targetURI |-> Empty,
               noOwner |-> FALSE, clean |-> FALSE,
               create |-> FALSE, dataOnly |-> FALSE]
    /\ open = {}
    /\ opened = {}
    /\ deferred = <<>>
    /\ attempts = [source |-> <<>>, target |-> <<>>]
    /\ queries = [source |-> 0, target |-> 0]
    /\ sourceVersion = <<>>
    /\ targetVersion = <<>>
    /\ err = NoErr
    /\ dumpStr = Empty
    /\ cmd = Empty
    /\ stages = [ran |-> FALSE, started |-> FALSE, dump |-> 0, restore |-> 0]
    /\ pipelineStarts = 0
    /\ log = <<>>
    /\ phases = <<"config">>
    /\ exitCode = NotExited

\* main lines 37-42
ResolveSource ==
    /\ pc = "resolve_source"
    /\ sourceURI' = Getenv("SOURCE_DATABASE_URI")
    /\ IF MissingSource(sourceURI')
       THEN /\ log' = Logged(log, "error")
            /\ err' = "config"
            /\ Exit(1)
       ELSE /\ pc' = "derive_target"
            /\ UNCHANGED <<log, err, exitCode>>
    /\ UNCHANGED <<env, flags, targetURI, opts, open, opened, deferred,
                   attempts, queries, sourceVersion, targetVersion, dumpStr,
                   cmd, stages, pipelineStarts, phases>>

\* main lines 44-55
DeriveTarget ==
    /\ pc = "derive_target"
    /\ LET operatorPass == Getenv("OPERATOR_PASSWORD")
           appName      == Getenv("FLY_APP_NAME")
       IN  IF appName # ""
           THEN /\ targetURI' = DerivedTargetURI(operatorPass, appName)
                /\ IF MissingPassword(appName, operatorPass)
                   THEN /\ log' = Logged(log, "error")
                        /\ err' = "config"
                        /\ Exit(1)
                   ELSE /\ pc' = "read_target"
                        /\ UNCHANGED <<log, err, exitCode>>
           ELSE /\ pc' = "read_target"
                /\ UNCHANGED <<targetURI, log, err, exitCode>>
    /\ UNCHANGED <<env, flags, sourceURI, opts, open, opened, deferred,
                   attempts, queries, sourceVersion, targetVersion, dumpStr,
                   cmd, stages, pipelineStarts, phases>>

\* main lines 57-63
ReadTarget ==
    /\ pc = "read_target"
    /\ targetURI' = TargetAfterGetenv(targetURI, Getenv("TARGET_DATABASE_URI"))
    /\ IF MissingTarget(targetURI')
       THEN /\ log' = Logged(log, "error")
            /\ err' = "config"
            /\ Exit(1)
       ELSE /\ pc' = "build_opts"
            /\ UNCHANGED <<log, err, exitCode>>
    /\ UNCHANGED <<env, flags, sourceURI, opts, open, opened, deferred,
                   attempts, queries, sourceVersion, targetVersion, dumpStr,
                   cmd, stages, pipelineStarts, phases>>

\* main lines 66-76: build opts, announce and enter runPreChecks
BuildOpts ==
    /\ pc = "build_opts"
    /\ opts' = [sourceURI |-> sourceURI, targetURI |-> targetURI,
                noOwner |-> flags.noOwner, clean |-> flags.clean,
                create |-> flags.create, dataOnly |-> flags.dataOnly]
    /\ log' = Logged(log, "info")
    /\ phases' = Append(phases, "preflight")
    /\ pc' = "parse_source"
    /\ UNCHANGED <<env, flags, sourceURI, targetURI, open, opened, deferred,
                   attempts, queries, sourceVersion, targetVersion, err,
                   dumpStr, cmd, stages, pipelineStarts, exitCode>>

-----------------------------------------------------------------------------
(* runPreChecks, lines 92-137 *)

MissingDatabaseNever(conf) == FALSE

\* sourceConf.Database == ""
MissingDatabase(conf) == conf.Database = ""

\* defer func() { _ = conn.Close(ctx) }()
Defer(stack, conn) == <<conn>> \o stack

RunDeferredLastOnly(conns, stack) ==
    IF stack = <<>> THEN conns ELSE conns \ {Head(stack)}

\* the deferred Close calls run, last deferred first, when runPreChecks returns
RECURSIVE RunDeferred(_, _)
RunDeferred(conns, stack) ==
    IF stack = <<>> THEN conns
    ELSE RunDeferred(conns \ {Head(stack)}, Tail(stack))

\* return from runPreChecks with error e (NoErr for nil)
ReturnPreChecks(e) ==
    /\ open' = RunDeferred(open, deferred)
    /\ deferred' = <<>>
    /\ err' = e
    /\ pc' = "prechecks_returned"

\* lines 94-100
ParseSource ==
    /\ pc = "parse_source"
    /\ LET sourceConf == ParseConfig(opts.sourceURI)
       IN  IF ~sourceConf.ok
           THEN ReturnPreChecks("parse")
           ELSE IF MissingDatabase(sourceConf)
           THEN ReturnPreChecks("validation")
           ELSE /\ pc' = "open_source"
                /\ UNCHANGED <<open, deferred, err>>
    /\ UNCHANGED <<env, flags, sourceURI, targetURI, opts, opened, attempts,
                   queries, sourceVersion, targetVersion, dumpStr, cmd,
                   stages, pipelineStarts, log, phases, exitCode>>

\* openConnection, lines 164-176, for endpoint e with locator uri: the
\* connection is attempted only if the locator parses; the attempt may fail
OpenConnection(e, uri, failure, next) ==
    IF ~ParseConfig(uri).ok
    THEN /\ ReturnPreChecks(failure)
         /\ UNCHANGED <<attempts, opened>>
    ELSE /\ attempts' = [attempts EXCEPT ![e] = Append(@, uri)]
         /\ \E connected \in BOOLEAN :
               IF connected
               THEN /\ open' = open \cup {e}
                    /\ opened' = opened \cup {e}
                    /\ deferred' = Defer(deferred, e)
                    /\ pc' = next
                    /\ UNCHANGED err
               ELSE /\ ReturnPreChecks(failure)
                    /\ UNCHANGED opened

\* lines 103-107
OpenSource ==
    /\ pc = "open_source"
    /\ OpenConnection("source", opts.sourceURI, "connect_source", "open_target")
    /\ UNCHANGED <<env, flags, sourceURI, targetURI, opts, queries,
                   sourceVersion, targetVersion, dumpStr, cmd, stages,
                   pipelineStarts, log, phases, exitCode>>

\* lines 110-114
OpenTarget ==
    /\ pc = "open_target"
    /\ OpenConnection("target", opts.targetURI, "connect_target", "query_source")
    /\ UNCHANGED <<env, flags, sourceURI, targetURI, opts, queries,
                   sourceVersion, targetVersion, dumpStr, cmd, stages,
                   pipelineStarts, log, phases, exitCode>>

\* lines 117-121
QuerySource ==
    /\ pc = "query_source"
    /\ queries' = [queries EXCEPT !.source = @ + 1]
    /\ \/ /\ ReturnPreChecks("query_source")
          /\ UNCHANGED <<sourceVersion, log>>
       \/ \E v \in ServerVersions :
             /\ sourceVersion' = v
             /\ log' = Logged(log, "info")
             /\ pc' = "query_target"
             /\ UNCHANGED <<open, deferred, err>>
    /\ UNCHANGED <<env, flags, sourceURI, targetURI, opts, opened, attempts,
                   targetVersion, dumpStr, cmd, stages, pipelineStarts,
                   phases, exitCode>>

\* lines 123-127
QueryTarget ==
    /\ pc = "query_target"
    /\ queries' = [queries EXCEPT !.target = @ + 1]
    /\ \/ /\ ReturnPreChecks("query_target")
          /\ UNCHANGED <<targetVersion, log>>
       \/ \E v \in ServerVersions :
             /\ targetVersion' = v
             /\ log' = Logged(log, "info")
             /\ pc' = "compare_versions"
             /\ UNCHANGED <<open, deferred, err>>
    /\ UNCHANGED <<env, flags, sourceURI, targetURI, opts, opened, attempts,
                   sourceVersion, dumpStr, cmd, stages, pipelineStarts,
                   phases, exitCode>>

\* lines 129-132: sourceSlice[0] > targetSlice[0]
SourceIsNewer(sv, tv) ==
    LET sourceSlice == Split(sv, Dot)
        targetSlice == Split(tv, Dot)
    IN  StrGreater(sourceSlice[1], targetSlice[1])

\* lines 129-136
CompareVersions ==
    /\ pc = "compare_versions"
    /\ IF SourceIsNewer(sourceVersion, targetVersion)
       THEN ReturnPreChecks("version")
       ELSE ReturnPreChecks(NoErr)
    /\ UNCHANGED <<env, flags, sourceURI, targetURI, opts, opened, attempts,
                   queries, sourceVersion, targetVersion, dumpStr, cmd,
                   stages, pipelineStarts, log, phases, exitCode>>

-----------------------------------------------------------------------------
(* main after runPreChecks, runMigration, runCommand *)

FailedNever(e) == FALSE

\* err != nil
Failed(e) == e # NoErr

\* main lines 76-83
AfterPreChecks ==
    /\ pc = "prechecks_returned"
    /\ IF Failed(err)
       THEN /\ log' = Logged(log, "error")
            /\ Exit(1)
            /\ UNCHANGED phases
       ELSE /\ log' = Logged(Logged(log, "info"), "info")
            /\ phases' = Append(phases, "migration")
            /\ pc' = "build_command"
            /\ UNCHANGED exitCode
    /\ UNCHANGED <<env, flags, sourceURI, targetURI, opts, open, opened,
                   deferred, attempts, queries, sourceVersion, targetVersion,
                   err, dumpStr, cmd, stages, pipelineStarts>>

DumpCommandCreateFirst(o) ==
    LET d0 == <<"pg_dump -d ">> \o o.sourceURI
        d1 == IF o.noOwner THEN d0 \o <<" --no-owner">> ELSE d0
        d2 == IF o.create THEN d1 \o <<" --create">> ELSE d1
        d3 == IF o.clean THEN d2 \o <<" --clean">> ELSE d2
        d4 == IF o.dataOnly THEN d3 \o <<" --data-only">> ELSE d3
    IN  d4

\* lines 140-152: dumpStr
DumpCommand(o) ==
    LET d0 == <<"pg_dump -d ">> \o o.sourceURI
        d1 == IF o.noOwner THEN d0 \o <<" --no-owner">> ELSE d0
        d2 == IF o.clean THEN d1 \o <<" --clean">> ELSE d1
        d3 == IF o.create THEN d2 \o <<" --create">> ELSE d2
        d4 == IF o.dataOnly THEN d3 \o <<" --data-only">> ELSE d3
    IN  d4

\* line 154: restoreStr
RestoreCommand(o) == <<"psql -d ">> \o o.targetURI

\* line 155: cmd
PipelineCommand(dump, restore) == dump \o <<" | ">> \o restore

\* lines 140-155
BuildCommand ==
    /\ pc = "build_command"
    /\ dumpStr' = DumpCommand(opts)
    /\ cmd' = PipelineCommand(dumpStr', RestoreCommand(opts))
    /\ pc' = "run_command"
    /\ UNCHANGED <<env, flags, sourceURI, targetURI, opts, open, opened,
                   deferred, attempts, queries, sourceVersion, targetVersion,
                   err, stages, pipelineStarts, log, phases, exitCode>>

\* exit status of sh -c "<dump> | <restore>": that of the last command of
\* the pipeline (lines 155 and 179)
PipelineStatus(dump, restore) == restore

\* the error of cmd.Output(), line 182: sh could not be started or exited
\* non-zero
CommandFailed(started, dump, restore) ==
    \/ ~started
    \/ PipelineStatus(dump, restore) # 0

\* lines 157-161 and 178-183
RunCommand ==
    /\ pc = "run_command"
    /\ pipelineStarts' = pipelineStarts + 1
    /\ \E started \in BOOLEAN, dump \in {0, 1}, restore \in {0, 1} :
          /\ ~started => dump = 1 /\ restore = 1
          /\ stages' = [ran |-> TRUE, started |-> started,
                        dump |-> dump, restore |-> restore]
          /\ err' = IF CommandFailed(started, dump, restore)
                    THEN "execution" ELSE NoErr
    /\ pc' = "migration_returned"
    /\ UNCHANGED <<env, flags, sourceURI, targetURI, opts, open, opened,
                   deferred, attempts, queries, sourceVersion, targetVersion,
                   dumpStr, cmd, log, phases, exitCode>>

\* main lines 84-90
AfterMigration ==
    /\ pc = "migration_returned"
    /\ IF Failed(err)
       THEN /\ log' = Logged(log, "error")
            /\ Exit(1)
       ELSE /\ log' = Logged(log, "info")
            /\ Exit(0)
    /\ UNCHANGED <<env, flags, sourceURI, targetURI, opts, open, opened,
                   deferred, attempts, queries, sourceVersion, targetVersion,
                   err, dumpStr, cmd, stages, pipelineStarts, phases>>

Next ==
    \/ ResolveSource
    \/ DeriveTarget
    \/ ReadTarget
    \/ BuildOpts
    \/ ParseSource
    \/ OpenSource
    \/ OpenTarget
    \/ QuerySource
    \/ QueryTarget
    \/ CompareVersions
    \/ AfterPreChecks
    \/ BuildCommand
    \/ RunCommand
    \/ AfterMigration

Spec == Init /\ [][Next]_vars

-----------------------------------------------------------------------------
(* The version comparison over all generated version strings: a run that has *)
(* resolved its configuration, opened both connections and is about to       *)
(* compare the two versions the servers reported.                            *)

InitVersion ==
    /\ env = [SOURCE_DATABASE_URI |-> SourceWithDb,
              OPERATOR_PASSWORD   |-> "",
              FLY_APP_NAME        |-> "",
              TARGET_DATABASE_URI |-> TargetWithDb]
    /\ flags = [noOwner |-> TRUE, clean |-> TRUE,
                create |-> TRUE, dataOnly |-> FALSE]
    /\ pc = "compare_versions"
    /\ sourceURI = SourceWithDb
    /\ targetURI = TargetWithDb
    /\ opts = [sourceURI |-> SourceWithDb, targetURI |-> TargetWithDb,
               noOwner |-> TRUE, clean |-> TRUE,
               create |-> TRUE, dataOnly |-> FALSE]
    /\ open = {"source", "target"}
    /\ opened = {"source", "target"}
    /\ deferred = <<"target", "source">>
    /\ attempts = [source |-> <<SourceWithDb>>, target |-> <<TargetWithDb>>]
    /\ queries = [source |-> 1, target |-> 1]
    /\ sourceVersion \in Versions
    /\ targetVersion \in Versions
    /\ err = NoErr
    /\ dumpStr = Empty
    /\ cmd = Empty
    /\ stages = [ran |-> FALSE, started |-> FALSE, dump |-> 0, restore |-> 0]
    /\ pipelineStarts = 0
    /\ log = <<"info", "info", "info">>
    /\ phases = <<"config", "preflight">>
    /\ exitCode = NotExited

NextVersion ==
    \/ CompareVersions
    \/ AfterPreChecks

VersionSpec == InitVersion /\ [][NextVersion]_vars

-----------------------------------------------------------------------------
(* Vocabulary of the properties *)

ConfigPcs == {"resolve_source", "derive_target", "read_target"}

PreflightPcs == {"parse_source", "open_source", "open_target", "query_source",
                 "query_target", "compare_versions"}

MigrationPcs == {"build_command", "run_command", "migration_returned"}

Count(f) == [e \in DOMAIN f |-> Len(f[e])]

NoNetwork ==
    /\ attempts = [source |-> <<>>, target |-> <<>>]
    /\ queries = [source |-> 0, target |-> 0]
    /\ opened = {}
    /\ open = {}
    /\ pipelineStarts = 0

ErrorLines == Len(SelectSeq(log, LAMBDA l : l = "error"))

\* a required environment input is missing
MissingInput ==
    \/ env.SOURCE_DATABASE_URI = Empty
    \/ env.FLY_APP_NAME # "" /\ env.OPERATOR_PASSWORD = ""
    \/ env.FLY_APP_NAME = "" /\ env.TARGET_DATABASE_URI = Empty

\* the leading dot-separated token: the longest prefix without a dot
LeadingToken(s) ==
    LET n == CHOOSE k \in 0..Len(s) :
                 /\ \A j \in 1..k : s[j] # Dot
                 /\ k < Len(s) => s[k + 1] = Dot
    IN  SubSeq(s, 1, n)

\* a is lexically greater than b
LexGreater(a, b) ==
    \E k \in 0..Len(a) :
        /\ k <= Len(b)
        /\ \A j \in 1..k : a[j] = b[j]
        /\ \/ k = Len(b) /\ Len(a) > k
           \/ k < Len(a) /\ k < Len(b) /\ a[k + 1] > b[k + 1]

-----------------------------------------------------------------------------
(* Properties *)

\* C1: in a run where a required environment input is missing, configuration
\* resolution fails with a configuration error and exit code 1, pre-flight
\* never starts, and no connection, query or pipeline has been made.
C1_MissingInputFailsBeforeNetwork ==
    MissingInput =>
        /\ NoNetwork
        /\ phases = <<"config">>
        /\ pc \in ConfigPcs \cup {"exited"}
        /\ pc = "exited" =>
              /\ err = "config"
              /\ exitCode = <<1>>
              /\ ErrorLines = 1

C1_Witness ==
    /\ env.SOURCE_DATABASE_URI # Empty
    /\ env.FLY_APP_NAME # ""
    /\ env.OPERATOR_PASSWORD = ""
    /\ env.TARGET_DATABASE_URI # Empty
    /\ pc = "exited"
    /\ exitCode = <<1>>
    /\ err = "config"
    /\ NoNetwork

\* C2: with SOURCE_DATABASE_URI, FLY_APP_NAME and OPERATOR_PASSWORD set and
\* TARGET_DATABASE_URI unset, configuration resolution succeeds with the
\* target locator derived from the password and the application name.
C2_DerivedLocatorUsed ==
    ( /\ env.SOURCE_DATABASE_URI # Empty
      /\ env.FLY_APP_NAME # ""
      /\ env.OPERATOR_PASSWORD # ""
      /\ env.TARGET_DATABASE_URI = Empty
      /\ pc \notin ConfigPcs )
    => /\ err # "config"
       /\ targetURI = DerivedTargetURI(env.OPERATOR_PASSWORD, env.FLY_APP_NAME)

\* C3: once the pipeline has run, runMigration returns an execution error if
\* and only if the shell could not be started, the dump stage failed or the
\* restore stage failed.
C3_EitherStageFailureIsError ==
    stages.ran =>
        ( err = "execution" <=>
            (~stages.started \/ stages.dump # 0 \/ stages.restore # 0) )

C5_DumpSwitches ==
    LET Chosen(sw) ==
            \/ sw = " --no-owner" /\ flags.noOwner
            \/ sw = " --clean" /\ flags.clean
            \/ sw = " --create" /\ flags.create
            \/ sw = " --data-only" /\ flags.dataOnly
    IN  pc \in {"run_command", "migration_returned"} \/ stages.ran =>
            dumpStr = <<"pg_dump -d ">> \o env.SOURCE_DATABASE_URI
                        \o SelectSeq(<<" --no-owner", " --clean",
                                       " --create", " --data-only">>, Chosen)

C5_Witness ==
    /\ pc = "run_command"
    /\ flags = [noOwner |-> FALSE, clean |-> TRUE,
                create |-> TRUE, dataOnly |-> TRUE]
    /\ dumpStr = <<"pg_dump -d ">> \o SourceWithDb
                    \o <<" --clean", " --create", " --data-only">>

\* C6: when the source locator names no database, pre-flight returns a
\* validation error and no connection is attempted and no version query is
\* issued at any point of the run.
C6_NoDatabaseFailsBeforeConnection ==
    env.SOURCE_DATABASE_URI \in {SourceNoDb, SourceSlash} =>
        /\ attempts = [source |-> <<>>, target |-> <<>>]
        /\ queries = [source |-> 0, target |-> 0]
        /\ opened = {}
        /\ pc \notin (PreflightPcs \ {"parse_source"}) \cup MigrationPcs
        /\ pc = "prechecks_returned" => err = "validation"
        /\ pc = "exited" => err \in {"validation", "config"}

C6_Witness ==
    /\ env.SOURCE_DATABASE_URI = SourceNoDb
    /\ pc = "prechecks_returned"
    /\ err = "validation"
    /\ attempts = [source |-> <<>>, target |-> <<>>]
    /\ queries = [source |-> 0, target |-> 0]

\* C7: whenever runPreChecks has returned, on any path, no connection it
\* opened is still open; in particular none is open when the process exits.
C7_ConnectionsReleased ==
    pc \in {"prechecks_returned", "exited"} \cup MigrationPcs => open = {}

C7_Witness ==
    /\ pc = "prechecks_returned"
    /\ err = "connect_target"
    /\ opened = {"source"}
    /\ open = {}

C8_Gates ==
    /\ phases \in {<<"config">>, <<"config", "preflight">>,
                   <<"config", "preflight", "migration">>}
    /\ pc \in PreflightPcs => Len(phases) >= 2
    /\ pc \in MigrationPcs => Len(phases) = 3
    /\ Len(phases) >= 2 =>
          /\ ~MissingInput
          /\ env.TARGET_DATABASE_URI # Empty
          /\ opts.sourceURI = env.SOURCE_DATABASE_URI
          /\ opts.targetURI # Empty
    /\ Len(attempts.source) <= 1
    /\ Len(attempts.target) <= 1
    /\ queries.source <= 1
    /\ queries.target <= 1
    /\ pipelineStarts <= 1
    /\ Len(attempts.target) = 1 => opened = {"source"} \/ opened = {"source", "target"}
    /\ Len(phases) = 3 \/ pipelineStarts > 0 =>
          /\ Len(phases) = 3
          /\ opened = {"source", "target"}
          /\ Count(attempts) = [source |-> 1, target |-> 1]
          /\ queries = [source |-> 1, target |-> 1]
          /\ ~LexGreater(LeadingToken(sourceVersion), LeadingToken(targetVersion))
    /\ err # NoErr => pc \in {"prechecks_returned", "migration_returned", "exited"}

C8_NothingAfterFailure ==
    err # NoErr =>
        /\ err' = err
        /\ attempts' = attempts
        /\ queries' = queries
        /\ opened' = opened
        /\ pipelineStarts' = pipelineStarts
        /\ phases' = phases
        /\ pc' = "exited"
        /\ exitCode' = <<1>>

\* C8: pre-flight starts only after configuration resolution succeeded, the
\* pipeline starts only after pre-flight returned without error, each
\* connection is attempted and the pipeline started at most once, and after a
\* failure the only step left is the exit with code 1.
C8_PhasesGateWithoutRetry == []C8_Gates /\ [][C8_NothingAfterFailure]_vars

C8_Witness ==
    /\ pipelineStarts = 1
    /\ phases = <<"config", "preflight", "migration">>
    /\ Count(attempts) = [source |-> 1, target |-> 1]
    /\ pc = "exited"

\* C9: the process exits with code 0 if and only if configuration
\* resolution, pre-flight and both stages of the pipeline succeeded, and
\* otherwise with code 1; exactly one error line precedes an exit with code
\* 1 and none an exit with code 0.
C9_ExitCodeAndDiagnostic ==
    pc = "exited" =>
        /\ exitCode \in {<<0>>, <<1>>}
        /\ exitCode = <<0>> <=>
              /\ phases = <<"config", "preflight", "migration">>
              /\ stages.ran /\ stages.started
              /\ stages.dump = 0 /\ stages.restore = 0
        /\ exitCode = <<1>> => ErrorLines = 1
        /\ exitCode = <<0>> => ErrorLines = 0

\* C10: when FLY_APP_NAME, OPERATOR_PASSWORD and TARGET_DATABASE_URI are all
\* set, the target locator of the options, the one dialed for the target
\* connection and the one in the restore command is TARGET_DATABASE_URI.
C10_ExplicitTargetOverrides ==
    ( /\ env.FLY_APP_NAME # ""
      /\ env.OPERATOR_PASSWORD # ""
      /\ env.TARGET_DATABASE_URI # Empty )
    => /\ pc = "build_opts" => targetURI = env.TARGET_DATABASE_URI
       /\ Len(phases) >= 2 => opts.targetURI = env.TARGET_DATABASE_URI
       /\ \A i \in 1..Len(attempts.target) :
              attempts.target[i] = env.TARGET_DATABASE_URI
       /\ cmd # Empty =>
              SubSeq(cmd, Len(dumpStr) + 2, Len(cmd))
                  = <<"psql -d ">> \o env.TARGET_DATABASE_URI

C10_Witness ==
    /\ env.FLY_APP_NAME = "myapp"
    /\ env.OPERATOR_PASSWORD = "secret"
    /\ env.TARGET_DATABASE_URI = TargetWithDb
    /\ attempts.target = <<TargetWithDb>>
    /\ cmd # Empty
    /\ opts.targetURI = TargetWithDb

====
